---- MODULE Spec2Model ----
(***************************************************************************)
(* Model of lib-in-view: InView (src/index.ts), Subject (src/index.ts) and *)
(* Context (src/unnamed/part_000).                                         *)
(*                                                                         *)
(* Lengths are fixed-point numbers: an integer n stands for n/Scale pixels,*)
(* so that non-integer bounding-box values and Math.floor are modelled.    *)
(* Scroll offsets and scroll amounts are whole pixels.                     *)
(* Strings are sequences of one-character strings.                         *)
(***************************************************************************)
EXTENDS Integers, Sequences, FiniteSets, TLC

\* ---------------------------------------------------------------- bounds
Scale == 2          \* sub-pixel resolution: one unit is 1/Scale pixel
MaxScrollTop == 2   \* host scrollTop ranges over 0..MaxScrollTop
MaxScrollLeft == 1  \* host scrollLeft ranges over 0..MaxScrollLeft
MaxListens == 2     \* calls of Context.listen (the constructor's included)
MaxStrLen == 3      \* longest offset string enumerated
MaxCoord == 4       \* layout coordinates range over 0..MaxCoord pixels

\* ------------------------------------------------------- JS value helpers
\* the NaN produced by parseInt; never equal to, less or greater than anything
NaN == -1000000

IsNaN(x) == x = NaN

\* JS relational operators on numbers (false when an operand is NaN)
JsLt(a, b) == ~IsNaN(a) /\ ~IsNaN(b) /\ a < b
JsLe(a, b) == ~IsNaN(a) /\ ~IsNaN(b) /\ a <= b
JsGe(a, b) == ~IsNaN(a) /\ ~IsNaN(b) /\ a >= b

\* Math.abs
Abs(x) == IF x < 0 THEN -x ELSE x

\* Math.floor of a fixed-point length, result again in units
Floor(x) == IF IsNaN(x) THEN NaN ELSE (x \div Scale) * Scale

\* px pixels plus frac/Scale of a pixel, in units
Px(px, frac) == px * Scale + frac

Digits == {"0", "1", "2", "3", "4", "5", "6", "7", "8", "9"}

DigitVal(c) ==
    CASE c = "0" -> 0 [] c = "1" -> 1 [] c = "2" -> 2 [] c = "3" -> 3
      [] c = "4" -> 4 [] c = "5" -> 5 [] c = "6" -> 6 [] c = "7" -> 7
      [] c = "8" -> 8 [] c = "9" -> 9

\* String.prototype.lastIndexOf for a one-character needle, 0-based, -1 if absent
LastIndexOf(s, c) ==
    LET hits == {i \in 1..Len(s) : s[i] = c}
    IN  IF hits = {} THEN -1
        ELSE (CHOOSE i \in hits : \A j \in hits : j <= i) - 1

RECURSIVE ParseDigits(_, _, _)
\* value of the longest run of digits of s starting at index i, acc so far
ParseDigits(s, i, acc) ==
    IF i > Len(s) \/ s[i] \notin Digits THEN acc
    ELSE ParseDigits(s, i + 1, acc * 10 + DigitVal(s[i]))

RECURSIVE SkipBlanks(_, _)
\* index of the first character of s at or after i that is not a blank
SkipBlanks(s, i) ==
    IF i > Len(s) \/ s[i] # " " THEN i ELSE SkipBlanks(s, i + 1)

\* parseInt(s, 10): leading blanks, an optional sign, then decimal digits;
\* NaN when no digit follows
ParseInt(s) ==
    LET start  == SkipBlanks(s, 1)
        signed == start <= Len(s) /\ s[start] \in {"-", "+"}
        first  == IF signed THEN start + 1 ELSE start
        neg    == signed /\ s[start] = "-"
    IN  IF first > Len(s) \/ s[first] \notin Digits THEN NaN
        ELSE IF neg THEN -ParseDigits(s, first, 0) ELSE ParseDigits(s, first, 0)

\* ------------------------------------------------------- offset values
\* TOffset as a tagged value: undefined, number, string or function
\* (a function offset is modelled by the number it returns)
NoOffset == [t |-> "undefined", v |-> 0, s |-> <<>>]
NumOffset(n) == [t |-> "number", v |-> n, s |-> <<>>]
StrOffset(str) == [t |-> "string", v |-> 0, s |-> str]
FnOffset(n) == [t |-> "function", v |-> n, s |-> <<>>]

\* JS truthiness of an offset value: !positionOffset
Falsy(o) ==
    \/ o.t = "undefined"
    \/ o.t = "number" /\ (o.v = 0 \/ IsNaN(o.v))
    \/ o.t = "string" /\ o.s = <<>>

Edges == {"top", "left", "bottom", "right"}

\* ------------------------------------------------------------- Subject
\* Subject.top/left/right/bottom: edges of getBoundingClientRect()
SubjectEdge(position, g) ==
    CASE position = "top" -> g.rect.top
      [] position = "left" -> g.rect.left
      [] position = "bottom" -> g.rect.bottom
      [] position = "right" -> g.rect.right

\* Subject.height() without margins
SubjectHeight(g) == g.rect.bottom - g.rect.top

\* Subject.width() without margins
SubjectWidth(g) == g.rect.right - g.rect.left

\* ------------------------------------------------------------- Context
DIR_NONE == 0
DIR_UP == 1
DIR_DOWN == 2
DIR_LEFT == 3
DIR_RIGHT == 4

\* Context.top(): 0 for a document, the element's rect otherwise
ContextTop(isDoc, g) == IF isDoc THEN 0 ELSE g.ctxTop

\* Context.left()
ContextLeft(isDoc, g) == IF isDoc THEN 0 ELSE g.ctxLeft

\* Context.innerHeight(): clientHeight of the element / documentElement
InnerHeight(g) == g.clientHeight

\* Context.innerWidth()
InnerWidth(g) == g.clientWidth

\* the scroll field initialiser of Context
InitialScroll ==
    [top |-> 0, left |-> 0, topDiff |-> 0, leftDiff |-> 0,
     dirY |-> DIR_NONE, dirX |-> DIR_NONE]

\* populateScroll storing the new position before it derives the directions
PopulateScroll_StoreFirst(sc, host) ==
    [top |-> host.top,
     left |-> host.left,
     topDiff |-> host.top - sc.top,
     leftDiff |-> host.left - sc.left,
     dirY |-> DIR_NONE,
     dirX |-> DIR_NONE]

\* Context.populateScroll: sc is the snapshot, host the element's
\* scrollTop/scrollLeft read at the call
PopulateScroll(sc, host) ==
    [top |-> host.top,
     left |-> host.left,
     topDiff |-> host.top - sc.top,
     leftDiff |-> host.left - sc.left,
     dirY |-> IF host.top = sc.top THEN DIR_NONE
              ELSE IF host.top > sc.top THEN DIR_DOWN ELSE DIR_UP,
     dirX |-> IF host.left = sc.left THEN DIR_NONE
              ELSE IF host.left > sc.left THEN DIR_RIGHT ELSE DIR_LEFT]

\* --------------------------------------------------------------- InView
\* InView.validateOptions: TRUE when it throws the TypeError
ValidateThrows(offset) ==
    \E k \in Edges :
        /\ offset[k].t = "string"
        /\ LastIndexOf(offset[k].s, "%") # Len(offset[k].s) - 1

\* getSubjectPosition taking the percentage of the context's dimension
\* whatever offsetPercentageMode says
GetSubjectPosition_ParentOnly(position, opts, isDoc, g) ==
    LET value == SubjectEdge(position, g)
        positionOffset == opts.offset[position]
        sign == IF position = "top" \/ position = "left" THEN 1 ELSE -1
        dimension ==
            IF position = "top" \/ position = "bottom"
            THEN InnerHeight(g) ELSE InnerWidth(g)
        percent == ParseInt(positionOffset.s)
    IN  IF Falsy(positionOffset) THEN value
        ELSE IF positionOffset.t \in {"number", "function"}
        THEN (IF IsNaN(positionOffset.v) THEN NaN
              ELSE Floor(value + positionOffset.v * sign))
        ELSE IF IsNaN(percent) THEN NaN
        ELSE ((value * 100 + dimension * percent * sign) \div (100 * Scale)) * Scale

\* InView.getSubjectPosition
GetSubjectPosition(position, opts, isDoc, g) ==
    LET value == SubjectEdge(position, g)
        positionOffset == opts.offset[position]
        sign == IF position = "top" \/ position = "left" THEN 1 ELSE -1
        dimension ==
            IF opts.offsetPercentageMode = "parent"
            THEN (IF position = "top" \/ position = "bottom"
                  THEN InnerHeight(g) ELSE InnerWidth(g))
            ELSE (IF position = "top" \/ position = "bottom"
                  THEN SubjectHeight(g) ELSE SubjectWidth(g))
        percent == ParseInt(positionOffset.s)
    IN  IF Falsy(positionOffset) THEN value
        ELSE IF positionOffset.t \in {"number", "function"}
        THEN (IF IsNaN(positionOffset.v) THEN NaN
              ELSE Floor(value + positionOffset.v * sign))
        ELSE IF IsNaN(percent) THEN NaN
        \* floor(value + dimension / 100 * (percent * sign)), exactly
        ELSE ((value * 100 + dimension * percent * sign) \div (100 * Scale)) * Scale

\* the noise gate with a strict upper comparison (< for <=)
NoiseGate_Strict(sc, opts) ==
    LET amt == IF opts.scrollAmount.given THEN opts.scrollAmount
               ELSE [given |-> TRUE, hasTop |-> TRUE, top |-> 0,
                     hasLeft |-> TRUE, left |-> 0]
        scrollTopDiff == Abs(sc.topDiff)
        scrollLeftDiff == Abs(sc.leftDiff)
    IN  \/ scrollTopDiff > 0 /\ amt.hasTop /\ scrollTopDiff < amt.top
        \/ scrollLeftDiff > 0 /\ amt.hasLeft /\ scrollLeftDiff < amt.left

\* the noise gate with the comparison turned round (>= for <=)
NoiseGate_Ge(sc, opts) ==
    LET amt == IF opts.scrollAmount.given THEN opts.scrollAmount
               ELSE [given |-> TRUE, hasTop |-> TRUE, top |-> 0,
                     hasLeft |-> TRUE, left |-> 0]
        scrollTopDiff == Abs(sc.topDiff)
        scrollLeftDiff == Abs(sc.leftDiff)
    IN  \/ scrollTopDiff > 0 /\ amt.hasTop /\ scrollTopDiff >= amt.top
        \/ scrollLeftDiff > 0 /\ amt.hasLeft /\ scrollLeftDiff >= amt.left

\* the noise gate of InView.eventsHandler: TRUE when the handler returns early
\* (amt is options.scrollAmount || {top: 0, left: 0}; a missing top or left
\* is undefined and every comparison with it is false)
NoiseGate(sc, opts) ==
    LET amt == IF opts.scrollAmount.given THEN opts.scrollAmount
               ELSE [given |-> TRUE, hasTop |-> TRUE, top |-> 0,
                     hasLeft |-> TRUE, left |-> 0]
        scrollTopDiff == Abs(sc.topDiff)
        scrollLeftDiff == Abs(sc.leftDiff)
    IN  \/ scrollTopDiff > 0 /\ amt.hasTop /\ scrollTopDiff <= amt.top
        \/ scrollLeftDiff > 0 /\ amt.hasLeft /\ scrollLeftDiff <= amt.left

\* the edge predicates of InView.eventsHandler on the parent box and the
\* effective child edges
\* the top edge tested against the lower bound only
TopVisible_NoUpper(p, c) == JsGe(c.top, p.top)
TopVisible(p, c) == JsGe(c.top, p.top) /\ JsLt(c.top, p.bottom)
BottomVisible(p, c) == JsLt(c.bottom, p.bottom) /\ JsGe(c.bottom, p.top)
LeftVisible(p, c) == JsGe(c.left, p.left) /\ JsLt(c.left, p.right)
\* the right edge tested with the exclusive upper bound of the other edges
RightVisible_Exclusive(p, c) == JsLt(c.right, p.right) /\ JsGe(c.right, p.left)
RightVisible(p, c) == JsLe(c.right, p.right) /\ JsGe(c.right, p.left)
OverflowY(p, c) == JsLe(c.top, p.top) /\ JsGe(c.bottom, p.bottom)
OverflowX(p, c) == JsLe(c.left, p.left) /\ JsGe(c.right, p.right)

\* the visibility object with the overflow clauses left out of visible
Visibility_NoOverflow(p, c) ==
    [visible |-> (TopVisible(p, c) \/ BottomVisible(p, c))
                 /\ (LeftVisible(p, c) \/ RightVisible(p, c)),
     topLeft |-> TopVisible(p, c) /\ LeftVisible(p, c),
     topRight |-> TopVisible(p, c) /\ RightVisible(p, c),
     bottomLeft |-> BottomVisible(p, c) /\ LeftVisible(p, c),
     bottomRight |-> BottomVisible(p, c) /\ RightVisible(p, c)]

\* the visibility object with visible asking for both edges of an axis
Visibility_BothEdges(p, c) ==
    [visible |-> ((TopVisible(p, c) /\ BottomVisible(p, c)) \/ OverflowY(p, c))
                 /\ ((LeftVisible(p, c) /\ RightVisible(p, c)) \/ OverflowX(p, c)),
     topLeft |-> TopVisible(p, c) /\ LeftVisible(p, c),
     topRight |-> TopVisible(p, c) /\ RightVisible(p, c),
     bottomLeft |-> BottomVisible(p, c) /\ LeftVisible(p, c),
     bottomRight |-> BottomVisible(p, c) /\ RightVisible(p, c)]

\* the visibility object built by InView.eventsHandler
Visibility(p, c) ==
    [visible |-> (TopVisible(p, c) \/ BottomVisible(p, c) \/ OverflowY(p, c))
                 /\ (LeftVisible(p, c) \/ RightVisible(p, c) \/ OverflowX(p, c)),
     topLeft |-> TopVisible(p, c) /\ LeftVisible(p, c),
     topRight |-> TopVisible(p, c) /\ RightVisible(p, c),
     bottomLeft |-> BottomVisible(p, c) /\ LeftVisible(p, c),
     bottomRight |-> BottomVisible(p, c) /\ RightVisible(p, c)]

\* parentTop/Left/Bottom/Right of InView.eventsHandler
ParentBox(isDoc, g) ==
    [top |-> ContextTop(isDoc, g),
     left |-> ContextLeft(isDoc, g),
     bottom |-> ContextTop(isDoc, g) + InnerHeight(g),
     right |-> ContextLeft(isDoc, g) + InnerWidth(g)]

\* childTop/Left/Bottom/Right of InView.eventsHandler
ChildBox(opts, isDoc, g) ==
    [top |-> GetSubjectPosition("top", opts, isDoc, g),
     left |-> GetSubjectPosition("left", opts, isDoc, g),
     bottom |-> GetSubjectPosition("bottom", opts, isDoc, g),
     right |-> GetSubjectPosition("right", opts, isDoc, g)]

\* the locals of one evaluation of InView.eventsHandler past the noise gate,
\* and the visibility object it passes to the callback, from the parent box p
\* and the effective child edges c
EvaluateBoxes(p, c) ==
    [done |-> TRUE, parent |-> p, child |-> c,
     topVisible |-> TopVisible(p, c), bottomVisible |-> BottomVisible(p, c),
     leftVisible |-> LeftVisible(p, c), rightVisible |-> RightVisible(p, c),
     overflowY |-> OverflowY(p, c), overflowX |-> OverflowX(p, c),
     visibility |-> Visibility(p, c)]

\* the same for the options, the context and the layout
Evaluate(opts, isDoc, g) ==
    EvaluateBoxes(ParentBox(isDoc, g), ChildBox(opts, isDoc, g))

\* ------------------------------------------------- host listener registry
\* addEventListener: a listener already registered for the target and type
\* is not added again
AddListener(reg, entry) ==
    IF \E i \in 1..Len(reg) : reg[i] = entry THEN reg ELSE Append(reg, entry)

\* removeEventListener
RemoveListener(reg, entry) ==
    LET keep(x) == x # entry IN SelectSeq(reg, keep)

RECURSIVE AddWindowEvents(_, _, _)
\* the loop of Context.listen over windowEvents
AddWindowEvents(reg, names, id) ==
    IF names = <<>> THEN reg
    ELSE AddWindowEvents(
            AddListener(reg, [target |-> "window", name |-> Head(names), id |-> id]),
            Tail(names), id)

RECURSIVE RemoveWindowEvents(_, _, _)
\* the loop of Context.unlisten over this.windowEvents
RemoveWindowEvents(reg, names, id) ==
    IF names = <<>> THEN reg
    ELSE RemoveWindowEvents(
            RemoveListener(reg, [target |-> "window", name |-> Head(names), id |-> id]),
            Tail(names), id)

\* listen detaching every listener bound by an earlier call before it subscribes
ListenRegistry_Guarded(reg, wev, id) ==
    LET withScroll == <<[target |-> "element", name |-> "scroll", id |-> id]>>
    IN  IF wev.given THEN AddWindowEvents(withScroll, wev.names, id) ELSE withScroll

\* Context.listen(handler, windowEvents): the registry after the call, id
\* being the new bound listener
ListenRegistry(reg, wev, id) ==
    LET withScroll == AddListener(reg, [target |-> "element", name |-> "scroll", id |-> id])
    IN  IF wev.given THEN AddWindowEvents(withScroll, wev.names, id) ELSE withScroll

\* unlisten removing the scroll subscription only
UnlistenRegistry_ScrollOnly(reg, names, id) ==
    RemoveListener(reg, [target |-> "element", name |-> "scroll", id |-> id])

\* Context.unlisten(handler): the registry after the call
UnlistenRegistry(reg, names, id) ==
    RemoveWindowEvents(
        RemoveListener(reg, [target |-> "element", name |-> "scroll", id |-> id]),
        names, id)

\* the listeners the host invokes for an event of the given name fired at
\* the given target, in order; a scroll of a document bubbles to its window
Reached(reg, target, name, isDoc) ==
    LET onElement(x) == x.target = "element" /\ x.name = name
        onWindow(x) == x.target = "window" /\ x.name = name
    IN  IF target = "element"
        THEN SelectSeq(reg, onElement) \o (IF isDoc THEN SelectSeq(reg, onWindow) ELSE <<>>)
        ELSE SelectSeq(reg, onWindow)

\* ------------------------------------------------------ inputs enumerated
NoScrollAmount ==
    [given |-> FALSE, hasTop |-> FALSE, top |-> 0, hasLeft |-> FALSE, left |-> 0]

\* scrollAmount: {top: t, left: l}
ScrollAmount(t, l) ==
    [given |-> TRUE, hasTop |-> TRUE, top |-> t, hasLeft |-> TRUE, left |-> l]

\* scrollAmount: {top: t}
ScrollAmountTop(t) ==
    [given |-> TRUE, hasTop |-> TRUE, top |-> t, hasLeft |-> FALSE, left |-> 0]

NoOffsets == [k \in Edges |-> NoOffset]

\* the defaults the constructor merges the options over
DefaultOptions ==
    [hasContext |-> FALSE,
     windowEvents |-> [given |-> TRUE, names |-> <<"DOMContentLoaded", "resize">>],
     offset |-> NoOffsets,
     offsetPercentageMode |-> "parent",
     scrollAmount |-> NoScrollAmount]

\* the engines the lifecycle specification is run with: the option bag, and
\* whether the callback calls inView.stop() once the subject is visible
EngineChoices ==
    { [cbStops |-> TRUE,
       options |-> [DefaultOptions EXCEPT
                      !.scrollAmount = ScrollAmountTop(1),
                      !.hasContext = TRUE,
                      !.offset = [NoOffsets EXCEPT !["top"] = StrOffset(<<"5", "0", "%">>)]]],
      [cbStops |-> FALSE,
       options |-> [DefaultOptions EXCEPT
                      !.scrollAmount = ScrollAmount(1, 1),
                      !.windowEvents = [given |-> FALSE, names |-> <<>>],
                      !.offsetPercentageMode = "self",
                      !.offset = [NoOffsets EXCEPT !["top"] = NumOffset(Px(1, 0)),
                                                   !["bottom"] = NumOffset(0),
                                                   !["right"] = StrOffset(<<"5", "0", "%">>)]]],
      [cbStops |-> FALSE,
       options |-> [DefaultOptions EXCEPT
                      !.offset = [NoOffsets EXCEPT !["left"] = StrOffset(<<"5">>)]]],
      [cbStops |-> TRUE,
       options |-> [DefaultOptions EXCEPT
                      !.offset = [NoOffsets EXCEPT !["left"] = StrOffset(<<>>)],
                      !.scrollAmount = ScrollAmount(1, 0),
                      !.windowEvents = [given |-> TRUE, names |-> <<"resize", "scroll">>]]] }

\* a layout: the context's rect origin and client box, the subject's rect
Geom(ct, cl, ch, cw, t, l, b, r) ==
    [ctxTop |-> ct, ctxLeft |-> cl, clientHeight |-> ch, clientWidth |-> cw,
     rect |-> [top |-> t, left |-> l, bottom |-> b, right |-> r]]

\* the layout the lifecycle specification is run with: an element context
\* whose box starts at (1, 2) pixels, and a subject at sub-pixel positions
\* that lies inside the document's client box but left of the element
\* context's box
Geoms ==
    { Geom(Px(1, 0), Px(2, 0), Px(4, 0), Px(4, 0), Px(0, 1), Px(0, 1), Px(2, 1), Px(1, 1)) }

ScrollPositions == [top : 0..MaxScrollTop, left : 0..MaxScrollLeft]

\* what Context.listen may be called with by later callers
ListenChoices == { [given |-> TRUE, names |-> <<"resize">>] }

\* the window events the host fires
WindowEventNames == {"resize", "scroll"}

\* no evaluation has run yet
NoEvaluation ==
    LET box == [top |-> 0, left |-> 0, bottom |-> 0, right |-> 0]
    IN  [done |-> FALSE, parent |-> box, child |-> box,
         topVisible |-> FALSE, bottomVisible |-> FALSE,
         leftVisible |-> FALSE, rightVisible |-> FALSE,
         overflowY |-> FALSE, overflowX |-> FALSE,
         visibility |-> [visible |-> FALSE, topLeft |-> FALSE, topRight |-> FALSE,
                         bottomLeft |-> FALSE, bottomRight |-> FALSE]]

\* ------------------------------------------------------------------ state
VARIABLES
    phase,          \* "new", "constructed", or "failed" when the constructor threw
    options,        \* InView.options
    cbStops,        \* the user's callback calls inView.stop() when visible
    hostScroll,     \* scrollTop/scrollLeft of the context element in the host
    geom,           \* the host's layout (fixed during a behaviour)
    contextCreated, \* a Context has been constructed
    scroll,         \* Context.scroll
    event,          \* Context.event (the name of the stored event, "null" at first)
    windowEvents,   \* Context.windowEvents
    boundListener,  \* Context.boundListener (0 while undefined)
    listens,        \* number of Context.listen calls so far
    registry,       \* the host's registered listeners, in registration order
    pending,        \* listeners the host has yet to invoke for the event in dispatch
    evReach,        \* number of listeners the last event reached, 0 once another
                    \* operation has run
    evCalls,        \* callback invocations made for that event
    stopped,        \* stop() has been called
    last,           \* the last operation ("host", "listener", "removed", "recalculate"
                    \* or "other") and whether it invoked the callback
    lastEval,       \* the last evaluation that reached the callback
    evPrev,         \* the snapshot's top/left when the dispatch of the last event
                    \* began, (0, 0) once another operation has run
    evRefreshes,    \* populateScroll calls made for that event
    steps           \* the steps of the last listener invocation, in execution order

vars ==
    <<phase, options, cbStops, hostScroll, geom, contextCreated, scroll, event,
      windowEvents, boundListener, listens, registry, pending, evReach, evCalls,
      stopped, last, lastEval, evPrev, evRefreshes, steps>>

\* context is options.context || element.ownerDocument
IsDocContext == ~options.hasContext

\* the state after construction has not started
InitCommon ==
    /\ phase = "new"
    /\ hostScroll \in ScrollPositions
    /\ contextCreated = FALSE
    /\ scroll = InitialScroll
    /\ event = "null"
    /\ windowEvents = <<>>
    /\ boundListener = 0
    /\ listens = 0
    /\ registry = <<>>
    /\ pending = <<>>
    /\ evReach = 0
    /\ evCalls = 0
    /\ stopped = FALSE
    /\ last = [op |-> "other", called |-> FALSE]
    /\ lastEval = NoEvaluation
    /\ evPrev = [top |-> 0, left |-> 0]
    /\ evRefreshes = 0
    /\ steps = <<>>

Init ==
    /\ InitCommon
    /\ \E e \in EngineChoices : options = e.options /\ cbStops = e.cbStops
    /\ geom \in Geoms

\* ---------------------------------------------------------------- actions
\* InView.eventsHandler run on snapshot sc by operation op: the noise gate,
\* the evaluation, the callback, and the stop() the callback may make
EventsHandler(sc, op) ==
    \E gated \in {NoiseGate(sc, options)} :
        \E evaluation \in {IF gated THEN lastEval
                           ELSE Evaluate(options, IsDocContext, geom)} :
            LET stops == ~gated /\ cbStops /\ evaluation.visibility.visible
            IN  /\ last' = [op |-> op, called |-> ~gated]
                /\ lastEval' = evaluation
                /\ registry' = IF stops
                               THEN UnlistenRegistry(registry, windowEvents, boundListener)
                               ELSE registry
                /\ stopped' = (stopped \/ stops)

\* the constructor building the context and listening before it validates
Construct_ListenFirst ==
    /\ phase = "new"
    /\ phase' = IF ValidateThrows(options.offset) THEN "failed" ELSE "constructed"
    /\ contextCreated' = TRUE
    /\ scroll' = PopulateScroll(InitialScroll, hostScroll)
    /\ boundListener' = 1
    /\ listens' = 1
    /\ windowEvents' = IF options.windowEvents.given
                       THEN options.windowEvents.names ELSE windowEvents
    /\ registry' = ListenRegistry(registry, options.windowEvents, 1)
    /\ last' = [op |-> "other", called |-> FALSE]
    /\ UNCHANGED <<options, cbStops, hostScroll, geom, event, pending, evReach,
                   evCalls, stopped, lastEval, evPrev, evRefreshes, steps>>

\* new InView(element, callback, options)
Construct ==
    /\ phase = "new"
    /\ IF ValidateThrows(options.offset)
       THEN /\ phase' = "failed"
            /\ last' = [op |-> "other", called |-> FALSE]
            /\ UNCHANGED <<contextCreated, scroll, windowEvents, boundListener,
                           listens, registry>>
       ELSE /\ phase' = "constructed"
            /\ contextCreated' = TRUE
            /\ scroll' = PopulateScroll(InitialScroll, hostScroll)
            /\ boundListener' = 1
            /\ listens' = 1
            /\ windowEvents' = IF options.windowEvents.given
                               THEN options.windowEvents.names ELSE windowEvents
            /\ registry' = ListenRegistry(registry, options.windowEvents, 1)
            /\ last' = [op |-> "other", called |-> FALSE]
    /\ UNCHANGED <<options, cbStops, hostScroll, geom, event, pending, evReach,
                   evCalls, stopped, lastEval, evPrev, evRefreshes, steps>>

\* the body of the listener with the snapshot refreshed before the event is stored
ListenerSteps_RefreshFirst == <<"populateScroll", "event", "handler">>

\* the statements of Context.listener in program order
ListenerSteps == <<"event", "populateScroll", "handler">>

\* statement a of Context.listener is executed before statement b
RunsBefore(a, b) ==
    \E i, j \in 1..Len(ListenerSteps) :
        i < j /\ ListenerSteps[i] = a /\ ListenerSteps[j] = b

\* the host invokes the first listener of the queue q of an event:
\* Context.listener(handler, e), unless the listener was removed meanwhile;
\* host is the element's scroll position, calls the callback invocations and
\* refreshes the populateScroll calls the event has made so far
Dispatch(q, host, calls, refreshes) ==
    IF q = <<>>
    THEN /\ pending' = <<>>
         /\ evCalls' = calls
         /\ evRefreshes' = refreshes
         /\ last' = [op |-> "host", called |-> FALSE]
         /\ steps' = <<>>
         /\ UNCHANGED <<event, scroll, registry, stopped, lastEval>>
    ELSE /\ pending' = Tail(q)
         /\ IF \E i \in 1..Len(registry) : registry[i] = Head(q)
            THEN \E refreshed \in {PopulateScroll(scroll, host)} :
                 \* the handler sees the snapshot as its place in the listener finds it
                 \E seen \in {IF RunsBefore("populateScroll", "handler")
                              THEN refreshed ELSE scroll} :
                     /\ event' = Head(q).name
                     /\ scroll' = refreshed
                     /\ steps' = ListenerSteps
                     /\ EventsHandler(seen, "listener")
                     /\ evCalls' = calls + (IF last'.called THEN 1 ELSE 0)
                     /\ evRefreshes' = refreshes + 1
            ELSE /\ last' = [op |-> "removed", called |-> FALSE]
                 /\ evCalls' = calls
                 /\ evRefreshes' = refreshes
                 /\ steps' = <<>>
                 /\ UNCHANGED <<event, scroll, registry, stopped, lastEval>>

\* the host scrolls the context element to (t, l), fires its scroll event and
\* invokes the first listener the event reaches (what the host does before
\* the constructor runs is in the initial state)
HostScroll(t, l) ==
    /\ phase # "new"
    /\ pending = <<>>
    /\ hostScroll # [top |-> t, left |-> l]
    /\ hostScroll' = [top |-> t, left |-> l]
    /\ evPrev' = [top |-> scroll.top, left |-> scroll.left]
    /\ \E q \in {Reached(registry, "element", "scroll", IsDocContext)} :
          /\ evReach' = Len(q)
          /\ Dispatch(q, hostScroll', 0, 0)
    /\ UNCHANGED <<phase, options, cbStops, geom, contextCreated, windowEvents,
                   boundListener, listens>>

\* the host fires the named event at the window and invokes the first
\* listener the event reaches
HostWindowEvent(name) ==
    /\ phase # "new"
    /\ pending = <<>>
    /\ evPrev' = [top |-> scroll.top, left |-> scroll.left]
    /\ \E q \in {Reached(registry, "window", name, IsDocContext)} :
          /\ evReach' = Len(q)
          /\ Dispatch(q, hostScroll, 0, 0)
    /\ UNCHANGED <<phase, options, cbStops, hostScroll, geom, contextCreated,
                   windowEvents, boundListener, listens>>

\* the host invokes the next listener of the event in dispatch
RunListener ==
    /\ pending # <<>>
    /\ Dispatch(pending, hostScroll, evCalls, evRefreshes)
    /\ UNCHANGED <<phase, options, cbStops, hostScroll, geom, contextCreated,
                   windowEvents, boundListener, listens, evReach, evPrev>>

\* recalculate() refreshing the snapshot before it runs the handler
Recalculate_Refresh ==
    /\ phase = "constructed"
    /\ pending = <<>>
    /\ scroll' = PopulateScroll(scroll, hostScroll)
    /\ EventsHandler(scroll', "recalculate")
    /\ evReach' = 0
    /\ evCalls' = 0
    /\ evPrev' = [top |-> 0, left |-> 0]
    /\ evRefreshes' = 0
    /\ steps' = <<>>
    /\ UNCHANGED <<phase, options, cbStops, hostScroll, geom, contextCreated,
                   event, windowEvents, boundListener, listens, pending>>

\* InView.recalculate()
Recalculate ==
    /\ phase = "constructed"
    /\ pending = <<>>
    /\ EventsHandler(scroll, "recalculate")
    /\ evReach' = 0
    /\ evCalls' = 0
    /\ evPrev' = [top |-> 0, left |-> 0]
    /\ evRefreshes' = 0
    /\ steps' = <<>>
    /\ UNCHANGED <<phase, options, cbStops, hostScroll, geom, contextCreated, scroll,
                   event, windowEvents, boundListener, listens, pending>>

\* InView.stop()
Stop ==
    /\ phase = "constructed"
    /\ pending = <<>>
    /\ registry' = UnlistenRegistry(registry, windowEvents, boundListener)
    /\ stopped' = TRUE
    /\ last' = [op |-> "other", called |-> FALSE]
    /\ evReach' = 0
    /\ evCalls' = 0
    /\ evPrev' = [top |-> 0, left |-> 0]
    /\ evRefreshes' = 0
    /\ steps' = <<>>
    /\ UNCHANGED <<phase, options, cbStops, hostScroll, geom, contextCreated, scroll,
                   event, windowEvents, boundListener, listens, pending, lastEval>>

\* a further context.listen(handler, w) on the engine's public context
Listen(w) ==
    /\ phase = "constructed"
    /\ pending = <<>>
    /\ listens < MaxListens
    /\ listens' = listens + 1
    /\ boundListener' = listens + 1
    /\ windowEvents' = IF w.given THEN w.names ELSE windowEvents
    /\ registry' = ListenRegistry(registry, w, listens + 1)
    /\ last' = [op |-> "other", called |-> FALSE]
    /\ evReach' = 0
    /\ evCalls' = 0
    /\ evPrev' = [top |-> 0, left |-> 0]
    /\ evRefreshes' = 0
    /\ steps' = <<>>
    /\ UNCHANGED <<phase, options, cbStops, hostScroll, geom, contextCreated, scroll,
                   event, pending, stopped, lastEval>>

Next ==
    \/ Construct
    \/ \E t \in 0..MaxScrollTop, l \in 0..MaxScrollLeft : HostScroll(t, l)
    \/ \E name \in WindowEventNames : HostWindowEvent(name)
    \/ RunListener
    \/ Recalculate
    \/ Stop
    \/ \E w \in ListenChoices : Listen(w)

Spec == Init /\ [][Next]_vars

\* ------------------------------------ specifications of the pure functions
\* the bounded step relation of the pure-function specifications: construct
\* the engine on the drawn input, then evaluate it
NextEval ==
    \/ Construct
    \/ Recalculate

\* layouts for the edge predicates: an element context whose visible box is
\* [1, MaxCoord - 1) pixels on both axes, and every subject rectangle with
\* whole-pixel edges in 0..MaxCoord
EvalGeoms ==
    { Geom(Px(1, 0), Px(1, 0), Px(MaxCoord - 2, 0), Px(MaxCoord - 2, 0),
           Px(t, 0), Px(l, 0), Px(b, 0), Px(r, 0)) :
        t \in 0..MaxCoord, l \in 0..MaxCoord, b \in 0..MaxCoord, r \in 0..MaxCoord }

InitEval ==
    /\ InitCommon
    /\ hostScroll = [top |-> 0, left |-> 0]
    /\ cbStops = FALSE
    /\ options = [DefaultOptions EXCEPT !.hasContext = TRUE]
    /\ geom \in {g \in EvalGeoms : g.rect.top <= g.rect.bottom /\ g.rect.left <= g.rect.right}

SpecEval == InitEval /\ [][NextEval]_vars

\* numeric offsets: negative, zero and positive, whole and fractional pixels
EdgeOffsets == {Px(-1, 0), -1, 0, 1, Px(1, 0)}

\* subject rectangles with whole and fractional edges, also negative ones
EdgeGeoms ==
    { Geom(0, 0, Px(4, 0), Px(4, 0), t, l, t + Px(1, 1), l + Px(2, 0)) :
        t \in Px(-1, 0)..Px(1, 0), l \in Px(-1, 0)..Px(1, 0) }

InitEdge ==
    /\ InitCommon
    /\ hostScroll = [top |-> 0, left |-> 0]
    /\ cbStops = FALSE
    /\ \E o \in EdgeOffsets, m \in {"parent", "self"} :
          options = [DefaultOptions EXCEPT !.offset = [k \in Edges |-> NumOffset(o)],
                                           !.offsetPercentageMode = m]
    /\ geom \in EdgeGeoms

SpecEdge == InitEdge /\ [][NextEval]_vars

\* the characters offset strings are enumerated over
Alphabet == {"5", "%", "x"}

\* every string over the alphabet of at most MaxStrLen characters
OffsetStrings == UNION {[1..n -> Alphabet] : n \in 0..MaxStrLen}

InitValidate ==
    /\ InitCommon
    /\ hostScroll = [top |-> 0, left |-> 0]
    /\ cbStops = FALSE
    /\ \E k \in Edges, str \in OffsetStrings :
          options = [DefaultOptions EXCEPT !.offset = [NoOffsets EXCEPT ![k] = StrOffset(str)]]
    /\ geom \in Geoms

SpecValidate == InitValidate /\ [][NextEval]_vars

\* percentage offsets: zero, positive, negative, and one with a blank before it
PercentStrings ==
    { <<"0", "%">>, <<"5", "0", "%">>, <<"-", "5", "0", "%">>, <<" ", "2", "5", "%">> }

\* layouts for the percentage offsets: a context box of 4 by 3 pixels and a
\* subject of 1.5 by 2 pixels at whole and fractional positions
PercentGeoms ==
    { Geom(0, 0, Px(4, 0), Px(3, 0), t, l, t + Px(1, 1), l + Px(2, 0)) :
        t \in Px(-1, 0)..Px(1, 0), l \in {0, 1} }

\* the same offset on all four edges: none, or a percentage string
InitPercent ==
    /\ InitCommon
    /\ hostScroll = [top |-> 0, left |-> 0]
    /\ cbStops = FALSE
    /\ \E o \in {NoOffset} \cup {StrOffset(str) : str \in PercentStrings},
          m \in {"parent", "self"} :
          options = [DefaultOptions EXCEPT !.offset = [k \in Edges |-> o],
                                           !.offsetPercentageMode = m]
    /\ geom \in PercentGeoms

SpecPercent == InitPercent /\ [][NextEval]_vars

\* layouts for the vertical axis: an element context at 1 pixel from the top
\* whose client height is 0, 1 or 2 pixels, and every subject with whole-pixel
\* top <= bottom in 0..MaxCoord, horizontally inside the context
AxisGeoms ==
    { Geom(Px(1, 0), Px(1, 0), Px(h, 0), Px(2, 0), Px(t, 0), Px(1, 0), Px(b, 0), Px(2, 0)) :
        h \in 0..2, t \in 0..MaxCoord, b \in 0..MaxCoord }

\* no offset, or one pixel inwards or outwards on the top and bottom edges
InitAxis ==
    /\ InitCommon
    /\ hostScroll = [top |-> 0, left |-> 0]
    /\ cbStops = FALSE
    /\ \E o \in {NoOffset, NumOffset(Px(1, 0)), NumOffset(Px(-1, 0))} :
          options = [DefaultOptions EXCEPT
                       !.hasContext = TRUE,
                       !.offset = [NoOffsets EXCEPT !["top"] = o, !["bottom"] = o]]
    /\ geom \in {g \in AxisGeoms : g.rect.top <= g.rect.bottom}

SpecAxis == InitAxis /\ [][NextEval]_vars

\* ------------------------------------------------------------- properties
\* thresholds of the noise gate as the options give them
\* (scrollAmount absent: {top: 0, left: 0}; a field absent: no threshold)
HasTopAmount == ~options.scrollAmount.given \/ options.scrollAmount.hasTop
HasLeftAmount == ~options.scrollAmount.given \/ options.scrollAmount.hasLeft
TopAmount == IF options.scrollAmount.given THEN options.scrollAmount.top ELSE 0
LeftAmount == IF options.scrollAmount.given THEN options.scrollAmount.left ELSE 0

\* the snapshot's delta on an axis lies in the noise range of that axis
TopIsNoise == 0 < Abs(scroll.topDiff) /\ HasTopAmount /\ Abs(scroll.topDiff) <= TopAmount
LeftIsNoise == 0 < Abs(scroll.leftDiff) /\ HasLeftAmount /\ Abs(scroll.leftDiff) <= LeftAmount

C3_StopUnsubscribes ==
    [][/\ (stopped' /\ listens' = 1) => registry' = <<>>
       /\ (stopped /\ listens = 1 /\ listens' = 1)
            => /\ scroll' = scroll
               /\ event' = event
               /\ evCalls' = 0 \/ evCalls' = evCalls
               /\ last'.op # "listener"]_vars

\* C3 witness: stop() was called from inside the callback while the event
\* still had a second listener to reach, which the host then skipped
C3_Witness ==
    /\ stopped /\ listens = 1
    /\ cbStops
    /\ last.op = "removed"

\* C4 as stated: construction fails for every offset that has a string entry
\* not ending in '%', the empty string included.
C4_RejectsNonPercent ==
    (phase # "new"
        /\ \E k \in Edges :
              /\ options.offset[k].t = "string"
              /\ \/ options.offset[k].s = <<>>
                 \/ options.offset[k].s[Len(options.offset[k].s)] # "%")
    => phase = "failed"

\* C5: when construction failed on validation no Context exists, no listener
\* is attached, and no event has reached the callback.
C5_NoPartialConstruction ==
    phase = "failed"
    => /\ ~contextCreated
       /\ boundListener = 0
       /\ listens = 0
       /\ registry = <<>>
       /\ pending = <<>>
       /\ scroll = InitialScroll
       /\ event = "null"
       /\ ~lastEval.done
       /\ ~last.called

\* C5 witness: the host has fired an event after a failed construction
C5_Witness ==
    /\ phase = "failed"
    /\ last.op = "host"
    /\ hostScroll.top > 0

\* C6: in every state dirY = NONE iff topDiff = 0, DOWN iff topDiff > 0,
\* UP iff topDiff < 0, and dirX = NONE / RIGHT / LEFT iff leftDiff = 0 / > 0 / < 0.
C6_Direction ==
    /\ scroll.dirY = DIR_NONE <=> scroll.topDiff = 0
    /\ scroll.dirY = DIR_DOWN <=> scroll.topDiff > 0
    /\ scroll.dirY = DIR_UP <=> scroll.topDiff < 0
    /\ scroll.dirX = DIR_NONE <=> scroll.leftDiff = 0
    /\ scroll.dirX = DIR_RIGHT <=> scroll.leftDiff > 0
    /\ scroll.dirX = DIR_LEFT <=> scroll.leftDiff < 0

\* C6 witness: an event has left the snapshot scrolled up and to the right
C6_Witness ==
    /\ last.op = "listener"
    /\ scroll.dirY = DIR_UP /\ scroll.topDiff < 0
    /\ scroll.dirX = DIR_RIGHT /\ scroll.leftDiff > 0

\* C7 as stated: every recalculate() invokes the callback once, with the
\* visibility computed from the current geometry.
C7_RecalculateForces ==
    last.op = "recalculate"
    => /\ last.called
       /\ lastEval = Evaluate(options, IsDocContext, geom)

\* C8: in every evaluation rightVisible iff parentLeft <= childRight <= parentRight,
\* and topVisible, bottomVisible, leftVisible iff the edge lies in the
\* half-open range [lower, upper).
C8_EdgeBounds ==
    lastEval.done
    => LET p == lastEval.parent
           c == lastEval.child
       IN  /\ lastEval.rightVisible <=> (p.left <= c.right /\ c.right <= p.right)
           /\ lastEval.leftVisible <=> (p.left <= c.left /\ c.left < p.right)
           /\ lastEval.topVisible <=> (p.top <= c.top /\ c.top < p.bottom)
           /\ lastEval.bottomVisible <=> (p.top <= c.bottom /\ c.bottom < p.bottom)

\* C8 witness: an evaluation with childRight = parentRight (right visible)
\* and childLeft = parentRight (left not visible), and one edge each at
\* parentBottom
C8_Witness ==
    /\ lastEval.done
    /\ lastEval.child.right = lastEval.parent.right /\ lastEval.rightVisible
    /\ lastEval.child.left = lastEval.parent.right /\ ~lastEval.leftVisible
    /\ lastEval.child.top = lastEval.parent.bottom /\ ~lastEval.topVisible
    /\ lastEval.child.bottom = lastEval.parent.bottom /\ ~lastEval.bottomVisible

\* the subject strictly straddles the context on both axes
Straddles(p, c) ==
    /\ c.top < p.top /\ c.bottom >= p.bottom
    /\ c.left < p.left /\ c.right > p.right

\* C9: visible = (topVisible or bottomVisible or overflowY) and (leftVisible
\* or rightVisible or overflowX), each quadrant flag is the conjunction of its
\* two edge predicates, and a subject straddling the context on both axes is
\* reported visible with all four quadrant flags false.
C9_OverflowNoQuadrants ==
    lastEval.done
    => LET e == lastEval
           v == lastEval.visibility
       IN  /\ v.visible <=> ((e.topVisible \/ e.bottomVisible \/ e.overflowY)
                             /\ (e.leftVisible \/ e.rightVisible \/ e.overflowX))
           /\ v.topLeft <=> (e.topVisible /\ e.leftVisible)
           /\ v.topRight <=> (e.topVisible /\ e.rightVisible)
           /\ v.bottomLeft <=> (e.bottomVisible /\ e.leftVisible)
           /\ v.bottomRight <=> (e.bottomVisible /\ e.rightVisible)
           /\ Straddles(e.parent, e.child)
                => /\ v.visible
                   /\ ~v.topLeft /\ ~v.topRight /\ ~v.bottomLeft /\ ~v.bottomRight

\* C9 witness: the callback has received a subject straddling the context
C9_Witness ==
    /\ last.called
    /\ Straddles(lastEval.parent, lastEval.child)
    /\ lastEval.visibility.visible

\* C10 as stated: with a numeric offset o on every edge, the effective top and
\* left edges are floor(raw + o), the effective bottom and right edges
\* floor(raw - o), zero offsets and non-integer raw values included.
C10_OffsetSign ==
    (lastEval.done /\ \A k \in Edges : options.offset[k].t = "number")
    => /\ lastEval.child.top = Floor(geom.rect.top + options.offset["top"].v)
       /\ lastEval.child.left = Floor(geom.rect.left + options.offset["left"].v)
       /\ lastEval.child.bottom = Floor(geom.rect.bottom - options.offset["bottom"].v)
       /\ lastEval.child.right = Floor(geom.rect.right - options.offset["right"].v)

\* C11 as stated: with "0%" on every edge, and with no offset on any edge,
\* every effective edge is floor(raw), non-integer raw values included.
C11_ZeroPercent ==
    (lastEval.done
        /\ \A k \in Edges : options.offset[k] \in {NoOffset, StrOffset(<<"0", "%">>)})
    => \A k \in Edges : lastEval.child[k] = Floor(SubjectEdge(k, geom))

\* the dimension a percentage on edge k is taken of, read from the layout
PercentBase(k) ==
    IF options.offsetPercentageMode = "parent"
    THEN (IF k \in {"top", "bottom"} THEN geom.clientHeight ELSE geom.clientWidth)
    ELSE (IF k \in {"top", "bottom"}
          THEN geom.rect.bottom - geom.rect.top ELSE geom.rect.right - geom.rect.left)

\* C12: with a percentage string of leading integer p on every edge, each
\* effective edge e is a whole pixel with e <= raw + base/100 * p * sign < e + 1,
\* sign being +1 for top and left and -1 for bottom and right, and base the
\* context's client height or width in 'parent' mode and the subject's own
\* height or width in 'self' mode.
C12_Percentage ==
    (lastEval.done
        /\ \A k \in Edges : /\ options.offset[k].t = "string"
                             /\ ~IsNaN(ParseInt(options.offset[k].s)))
    => \A k \in Edges :
          LET p == ParseInt(options.offset[k].s)
              sign == IF k \in {"top", "left"} THEN 1 ELSE -1
              exact == SubjectEdge(k, geom) * 100 + PercentBase(k) * p * sign
              e == lastEval.child[k]
          IN  /\ e % Scale = 0
              /\ e * 100 <= exact
              /\ exact < (e + Scale) * 100

\* C12 witness: "50%" in 'self' mode moved a fractional bottom edge up by
\* less than the context's dimension would have
C12_Witness ==
    /\ lastEval.done
    /\ options.offsetPercentageMode = "self"
    /\ options.offset["bottom"] = StrOffset(<<"5", "0", "%">>)
    /\ geom.rect.bottom % Scale # 0
    /\ lastEval.child.bottom < Floor(geom.rect.bottom)
    /\ lastEval.child.bottom > Floor(geom.rect.bottom - geom.clientHeight \div 2)

\* C13 as stated: the dispatch of an event refreshes the snapshot exactly
\* once, and every callback invocation made for the event observes diffs equal
\* to the position at this event minus the position at the previous event,
\* also after several listen calls and when a window event named in
\* windowEvents reaches the scroll listener too.
C13_OncePerEvent ==
    /\ (pending = <<>> /\ evReach > 0) => evRefreshes = 1
    /\ (last.op = "listener" /\ last.called)
         => /\ scroll.topDiff = hostScroll.top - evPrev.top
            /\ scroll.leftDiff = hostScroll.left - evPrev.left

FirstBound(reg) ==
    LET first(x) == x.id = 1 IN SelectSeq(reg, first)

\* C15: a second listen call leaves the first bound listener's subscriptions
\* in place, no later step (unlisten and stop included) removes them, and
\* while its scroll subscription is attached every scroll of the element
\* runs the listener: the snapshot is refreshed and the handler invoked.
C15_ListenLeaks ==
    [][/\ listens' = 2 => FirstBound(registry') = FirstBound(registry)
       /\ (/\ listens = 2
           /\ FirstBound(registry) # <<>>
           /\ hostScroll' # hostScroll)
            => /\ last'.op = "listener"
               /\ steps'[3] = "handler"
               /\ scroll'.top = hostScroll'.top
               /\ scroll'.left = hostScroll'.left]_vars

\* C15 witness: after listen; listen; stop the second listener is gone, the
\* first is still attached to scroll and resize, and a scroll has just run it
C15_Witness ==
    /\ listens = 2 /\ stopped
    /\ FirstBound(registry) = registry
    /\ \E i \in 1..Len(registry) : registry[i].name = "scroll"
    /\ \E i \in 1..Len(registry) : registry[i].name = "resize"
    /\ last.op = "listener"
    /\ scroll.topDiff # 0

\* C16 as stated: until the first event the snapshot holds the position read
\* at construction, and after every event top/left are the position read at
\* the event and topDiff/leftDiff the difference to the position read at the
\* preceding event or at construction.
C16_SnapshotDiffs ==
    /\ (phase = "constructed" /\ event = "null" /\ ~stopped)
         => /\ scroll.top = hostScroll.top
            /\ scroll.left = hostScroll.left
    /\ (last.op = "listener" /\ pending = <<>>)
         => /\ scroll.top = hostScroll.top
            /\ scroll.left = hostScroll.left
            /\ scroll.topDiff = scroll.top - evPrev.top
            /\ scroll.leftDiff = scroll.left - evPrev.left

\* the move of the last event against the position of the preceding one lies
\* in the noise range of an axis
EventIsNoise ==
    \/ /\ HasTopAmount
       /\ 0 < Abs(hostScroll.top - evPrev.top)
       /\ Abs(hostScroll.top - evPrev.top) <= TopAmount
    \/ /\ HasLeftAmount
       /\ 0 < Abs(hostScroll.left - evPrev.left)
       /\ Abs(hostScroll.left - evPrev.left) <= LeftAmount

\* C17 as stated: every listener invocation advances the snapshot's top/left
\* to the position read, gated or not, and an event whose move against the
\* preceding event is within (0, scrollAmount] on an axis has not invoked the
\* callback when its dispatch is over.
C17_NoiseNeverCalls ==
    /\ last.op = "listener"
         => /\ scroll.top = hostScroll.top
            /\ scroll.left = hostScroll.left
    /\ (last.op \in {"listener", "removed"} /\ pending = <<>> /\ EventIsNoise)
         => evCalls = 0

\* C18: a recalculate() leaves the snapshot and Context.event as they were,
\* leaves the subscriptions as they were unless the callback it invoked
\* called stop(), and invokes the callback exactly when the diffs of the
\* snapshot it found are outside the noise range on both axes.
C18_RecalculateFrame ==
    [][last'.op = "recalculate"
         => /\ scroll' = scroll
            /\ event' = event
            /\ (~cbStops \/ ~last'.called) => registry' = registry
            /\ last'.called <=> ~(TopIsNoise \/ LeftIsNoise)]_vars

\* C18 witness: a recalculate() was gated by the diffs of an earlier event
\* while the host had scrolled on since without the snapshot following
C18_Witness ==
    /\ last.op = "recalculate"
    /\ ~last.called
    /\ TopIsNoise
    /\ scroll.top # hostScroll.top
    /\ registry # <<>>

\* C19: in every visibility result passed to the callback, topLeft or
\* topRight or bottomLeft or bottomRight being true implies visible is true.
C19_QuadrantImpliesVisible ==
    lastEval.done
    => LET v == lastEval.visibility
       IN  (v.topLeft \/ v.topRight \/ v.bottomLeft \/ v.bottomRight) => v.visible

\* C19 witness: the callback received a subject whose top-left corner is in
\* view and whose bottom and right edges are not
C19_Witness ==
    /\ last.called
    /\ lastEval.visibility.topLeft
    /\ ~lastEval.visibility.topRight
    /\ ~lastEval.visibility.bottomLeft
    /\ lastEval.visibility.visible

\* the vertical clause of visible, and the intersection of [childTop,
\* childBottom] with [parentTop, parentBottom)
AxisClauseY == lastEval.topVisible \/ lastEval.bottomVisible \/ lastEval.overflowY
IntersectsY ==
    /\ lastEval.child.top < lastEval.parent.bottom
    /\ lastEval.child.bottom >= lastEval.parent.top

\* C20 as stated: whenever childTop <= childBottom and parentTop <=
\* parentBottom, the vertical clause holds iff childTop < parentBottom and
\* childBottom >= parentTop.
C20_Original ==
    (lastEval.done
        /\ lastEval.child.top <= lastEval.child.bottom
        /\ lastEval.parent.top <= lastEval.parent.bottom)
    => (AxisClauseY <=> IntersectsY)

\* C20 amended: whenever childTop <= childBottom and parentTop < parentBottom,
\* the vertical clause holds iff childTop < parentBottom and childBottom >=
\* parentTop, and a subject entirely above or entirely below the context is
\* not visible.
C20_AxisIntersection ==
    (lastEval.done
        /\ lastEval.child.top <= lastEval.child.bottom
        /\ lastEval.parent.top < lastEval.parent.bottom)
    => /\ AxisClauseY <=> IntersectsY
       /\ (\/ lastEval.child.bottom < lastEval.parent.top
           \/ lastEval.child.top >= lastEval.parent.bottom)
            => ~lastEval.visibility.visible

\* C20 witness: a subject moved by an offset whose effective bottom edge
\* touches the context's top edge from above is visible by its bottom edge
C20_Witness ==
    /\ lastEval.done
    /\ options.offset["bottom"].t = "number"
    /\ lastEval.parent.top < lastEval.parent.bottom
    /\ lastEval.child.top < lastEval.parent.top
    /\ lastEval.child.bottom = lastEval.parent.top
    /\ lastEval.bottomVisible /\ ~lastEval.topVisible /\ ~lastEval.overflowY
    /\ lastEval.visibility.visible

====
